---------------------------- MODULE Spec2Model ----------------------------
(***************************************************************************)
(* Lebanon visa application form filler (fill_visa_form.py and             *)
(* field_config.py): one fill operation, from opening the template to      *)
(* returning, as a state machine over the page's list of draw calls.       *)
(*                                                                         *)
(* Text is a sequence of one-character strings, so that lower(), upper(),  *)
(* strip(), str() and " ".join() are computed character by character.      *)
(* A JSON value is a record [t, s, n, d]: t its type, s the characters of  *)
(* a string, n the number of an int (or 0/1 of a bool), d the entries of   *)
(* a dict.                                                                  *)
(***************************************************************************)
EXTENDS Integers, Sequences, FiniteSets, TLC

\* ------------------------------------------------------------------ bounds
\* int values of the input records range over 0..MaxInt
MaxInt == 1
\* blank strings of the input records hold 1..MaxPad spaces
MaxPad == 1

\* -------------------------------------------------------------------- text
UpperLetters == <<"A","B","C","D","E","F","G","H","I","J","K","L","M",
                  "N","O","P","Q","R","S","T","U","V","W","X","Y","Z">>
LowerLetters == <<"a","b","c","d","e","f","g","h","i","j","k","l","m",
                  "n","o","p","q","r","s","t","u","v","w","x","y","z">>

\* str.lower(), one character
LowerChar(c) ==
    IF \E i \in 1..26 : UpperLetters[i] = c
    THEN LowerLetters[CHOOSE i \in 1..26 : UpperLetters[i] = c]
    ELSE c

\* str.upper(), one character
UpperChar(c) ==
    IF \E i \in 1..26 : LowerLetters[i] = c
    THEN UpperLetters[CHOOSE i \in 1..26 : LowerLetters[i] = c]
    ELSE c

Lower(s) == [i \in 1..Len(s) |-> LowerChar(s[i])]
Upper(s) == [i \in 1..Len(s) |-> UpperChar(s[i])]

\* the characters str.strip() removes
Whitespace == {" ", "\t", "\n"}

\* str.strip(): the text between the first and the last non-blank character
Strip(s) ==
    LET keep == {i \in 1..Len(s) : s[i] \notin Whitespace}
    IN  IF keep = {} THEN <<>>
        ELSE LET lo == CHOOSE i \in keep : \A j \in keep : i <= j
                 hi == CHOOSE i \in keep : \A j \in keep : j <= i
             IN  SubSeq(s, lo, hi)

\* str(n) for n >= 0
Digits == <<"0","1","2","3","4","5","6","7","8","9">>
RECURSIVE IntToText(_)
IntToText(n) ==
    IF n < 10 THEN <<Digits[n + 1]>>
    ELSE IntToText(n \div 10) \o <<Digits[(n % 10) + 1]>>

\* " ".join(parts)
RECURSIVE JoinSpace(_)
JoinSpace(parts) ==
    IF Len(parts) = 0 THEN <<>>
    ELSE IF Len(parts) = 1 THEN parts[1]
    ELSE parts[1] \o <<" ">> \o JoinSpace(Tail(parts))

\* ------------------------------------------------------------------ values
NoEntries == [k \in {} |-> 0]

StrV(s)  == [t |-> "str",  s |-> s,    n |-> 0, d |-> NoEntries]
IntV(n)  == [t |-> "int",  s |-> <<>>, n |-> n, d |-> NoEntries]
BoolV(b) == [t |-> "bool", s |-> <<>>, n |-> IF b THEN 1 ELSE 0, d |-> NoEntries]
NoneV    == [t |-> "null", s |-> <<>>, n |-> 0, d |-> NoEntries]
DictV(f) == [t |-> "dict", s |-> <<>>, n |-> 0, d |-> f]

\* Python truthiness: `if value`
Truthy(v) ==
    CASE v.t = "str"  -> Len(v.s) > 0
      [] v.t = "int"  -> v.n # 0
      [] v.t = "bool" -> v.n = 1
      [] v.t = "null" -> FALSE
      [] v.t = "dict" -> DOMAIN v.d # {}

\* str(value); a dict prints as its braces around its entries, kept opaque
ToText(v) ==
    CASE v.t = "str"  -> v.s
      [] v.t = "int"  -> IntToText(v.n)
      [] v.t = "bool" -> IF v.n = 1 THEN <<"T","r","u","e">> ELSE <<"F","a","l","s","e">>
      [] v.t = "null" -> <<"N","o","n","e">>
      [] v.t = "dict" -> <<"{", "...", "}">>

\* ------------------------------------------------------- field_config.py
FONT_NAME == "helv"
FONT_SIZE == 9
CHECKBOX_CHAR == <<"X">>
CHECKBOX_FONT_SIZE == 10

\* field name -> (x, y), y from the top of the page
FIELD_COORDINATES ==
       ("first_name" :> <<67, 154>>)
    @@ ("middle_name" :> <<198, 154>>)
    @@ ("last_name" :> <<323, 154>>)
    @@ ("place_of_birth" :> <<72, 178>>)
    @@ ("dob" :> <<198, 188>>)
    @@ ("mobile" :> <<328, 178>>)
    @@ ("present_nationality" :> <<72, 210>>)
    @@ ("nationality_of_origin" :> <<198, 210>>)
    @@ ("email" :> <<328, 210>>)
    @@ ("passport_number" :> <<72, 238>>)
    @@ ("issuing_country" :> <<198, 238>>)
    @@ ("passport_expiry" :> <<328, 248>>)
    @@ ("uae_address" :> <<72, 270>>)
    @@ ("checkbox_female" :> <<380, 259>>)
    @@ ("checkbox_male" :> <<415, 259>>)
    @@ ("home_phone" :> <<459, 270>>)
    @@ ("visa_refusal_details" :> <<72, 307>>)
    @@ ("job_title" :> <<328, 298>>)
    @@ ("uae_residency_expiry" :> <<328, 323>>)
    @@ ("checkbox_single" :> <<364, 347>>)
    @@ ("checkbox_married" :> <<357, 366>>)
    @@ ("checkbox_divorced" :> <<435, 348>>)
    @@ ("checkbox_widowed" :> <<433, 366>>)
    @@ ("lebanon_previous_visits" :> <<72, 402>>)
    @@ ("trip_start_date" :> <<328, 393>>)
    @@ ("trip_end_date" :> <<420, 393>>)
    @@ ("criminal_record_details" :> <<72, 460>>)
    @@ ("checkbox_business" :> <<339, 415>>)
    @@ ("checkbox_education" :> <<339, 424>>)
    @@ ("checkbox_tourism" :> <<337, 433>>)
    @@ ("checkbox_family_visit" :> <<337, 443>>)
    @@ ("checkbox_official" :> <<337, 452>>)
    @@ ("checkbox_other_purpose" :> <<337, 460>>)
    @@ ("other_purpose_text" :> <<430, 460>>)
    @@ ("contact_person" :> <<72, 482>>)
    @@ ("lebanon_address" :> <<72, 507>>)
    @@ ("arrival_date" :> <<72, 544>>)
    @@ ("departure_date" :> <<328, 544>>)
    @@ ("checkbox_single_entry" :> <<68, 577>>)
    @@ ("checkbox_two_entry" :> <<68, 599>>)
    @@ ("checkbox_multiple_entry" :> <<68, 620>>)
    @@ ("checkbox_15_days" :> <<272, 575>>)
    @@ ("checkbox_one_month" :> <<354, 575>>)
    @@ ("checkbox_three_months" :> <<271, 584>>)
    @@ ("checkbox_six_months" :> <<353, 583>>)
    @@ ("signature_date" :> <<295, 644>>)
    @@ ("accompanied_by_arabic" :> <<450, 750>>)

\* category -> lowercased value -> checkbox field name
CHECKBOX_MAPPINGS ==
    [ sex |->
           (<<"f","e","m","a","l","e">> :> "checkbox_female")
        @@ (<<"m","a","l","e">> :> "checkbox_male")
        @@ (<<"f">> :> "checkbox_female")
        @@ (<<"m">> :> "checkbox_male"),
      marital_status |->
           (<<"s","i","n","g","l","e">> :> "checkbox_single")
        @@ (<<"m","a","r","r","i","e","d">> :> "checkbox_married")
        @@ (<<"d","i","v","o","r","c","e","d">> :> "checkbox_divorced")
        @@ (<<"w","i","d","o","w","e","d">> :> "checkbox_widowed"),
      purpose_of_trip |->
           (<<"b","u","s","i","n","e","s","s">> :> "checkbox_business")
        @@ (<<"e","d","u","c","a","t","i","o","n">> :> "checkbox_education")
        @@ (<<"t","o","u","r","i","s","m">> :> "checkbox_tourism")
        @@ (<<"f","a","m","i","l","y","_","v","i","s","i","t">> :> "checkbox_family_visit")
        @@ (<<"f","a","m","i","l","y"," ","v","i","s","i","t">> :> "checkbox_family_visit")
        @@ (<<"o","f","f","i","c","i","a","l">> :> "checkbox_official")
        @@ (<<"o","t","h","e","r">> :> "checkbox_other_purpose"),
      visa_type |->
           (<<"s","i","n","g","l","e","_","e","n","t","r","y">> :> "checkbox_single_entry")
        @@ (<<"s","i","n","g","l","e">> :> "checkbox_single_entry")
        @@ (<<"t","w","o","_","e","n","t","r","y">> :> "checkbox_two_entry")
        @@ (<<"d","o","u","b","l","e">> :> "checkbox_two_entry")
        @@ (<<"m","u","l","t","i","p","l","e","_","e","n","t","r","y">> :> "checkbox_multiple_entry")
        @@ (<<"m","u","l","t","i","p","l","e">> :> "checkbox_multiple_entry"),
      visa_duration |->
           (<<"1","5","_","d","a","y","s">> :> "checkbox_15_days")
        @@ (<<"1","5"," ","d","a","y","s">> :> "checkbox_15_days")
        @@ (<<"o","n","e","_","m","o","n","t","h">> :> "checkbox_one_month")
        @@ (<<"1","_","m","o","n","t","h">> :> "checkbox_one_month")
        @@ (<<"1"," ","m","o","n","t","h">> :> "checkbox_one_month")
        @@ (<<"t","h","r","e","e","_","m","o","n","t","h","s">> :> "checkbox_three_months")
        @@ (<<"3","_","m","o","n","t","h","s">> :> "checkbox_three_months")
        @@ (<<"3"," ","m","o","n","t","h","s">> :> "checkbox_three_months")
        @@ (<<"s","i","x","_","m","o","n","t","h","s">> :> "checkbox_six_months")
        @@ (<<"6","_","m","o","n","t","h","s">> :> "checkbox_six_months")
        @@ (<<"6"," ","m","o","n","t","h","s">> :> "checkbox_six_months") ]

\* (dotted path, field name), in the order of the dict; a path is its
\* segments with the "." separators between them
TEXT_FIELD_MAPPINGS ==
    << << <<"personal_info", ".", "first_name">>, "first_name" >>,
       << <<"personal_info", ".", "middle_name">>, "middle_name" >>,
       << <<"personal_info", ".", "last_name">>, "last_name" >>,
       << <<"personal_info", ".", "place_of_birth">>, "place_of_birth" >>,
       << <<"personal_info", ".", "date_of_birth">>, "dob" >>,
       << <<"personal_info", ".", "mobile">>, "mobile" >>,
       << <<"personal_info", ".", "present_nationality">>, "present_nationality" >>,
       << <<"personal_info", ".", "nationality_of_origin">>, "nationality_of_origin" >>,
       << <<"passport_info", ".", "passport_number">>, "passport_number" >>,
       << <<"passport_info", ".", "issuing_country">>, "issuing_country" >>,
       << <<"passport_info", ".", "expiry_date">>, "passport_expiry" >>,
       << <<"residence_info", ".", "uae_address">>, "uae_address" >>,
       << <<"residence_info", ".", "uae_residency_expiry">>, "uae_residency_expiry" >>,
       << <<"travel_history", ".", "visa_refusal_details">>, "visa_refusal_details" >>,
       << <<"travel_history", ".", "lebanon_previous_visits">>, "lebanon_previous_visits" >>,
       << <<"travel_history", ".", "criminal_record_details">>, "criminal_record_details" >>,
       << <<"trip_info", ".", "start_date">>, "trip_start_date" >>,
       << <<"trip_info", ".", "end_date">>, "trip_end_date" >>,
       << <<"trip_info", ".", "other_purpose">>, "other_purpose_text" >>,
       << <<"trip_info", ".", "arrival_date">>, "arrival_date" >>,
       << <<"trip_info", ".", "departure_date">>, "departure_date" >>,
       << <<"accommodation_info", ".", "contact_person">>, "contact_person" >>,
       << <<"accommodation_info", ".", "lebanon_address">>, "lebanon_address" >>,
       << <<"signature_date">>, "signature_date" >>,
       << <<"accompanied_by_arabic">>, "accompanied_by_arabic" >> >>

\* the Arabic word for "accompanied by" and two spaces: seven Arabic
\* presentation-form letters, each written as its code point
ARABIC_ACCOMPANIED_BY_PREFIX ==
    <<"U+FE91","U+FEE4","U+FEAE","U+0627","U+FED3","U+FED8","U+FE94"," "," ">>

\* Imported by fill_visa_form.py from field_config, which does not define
\* them: the label table (lowercased visa type -> pricing/category label) and
\* the font size of the bottom labels, distinct from FONT_SIZE.
VISA_TYPE_LABELS ==
       (<<"s","i","n","g","l","e","_","e","n","t","r","y">> :> <<"l","a","b","e","l","-","1">>)
    @@ (<<"s","i","n","g","l","e">> :> <<"l","a","b","e","l","-","1">>)
    @@ (<<"t","w","o","_","e","n","t","r","y">> :> <<"l","a","b","e","l","-","2">>)
    @@ (<<"d","o","u","b","l","e">> :> <<"l","a","b","e","l","-","2">>)
    @@ (<<"m","u","l","t","i","p","l","e","_","e","n","t","r","y">> :> <<"l","a","b","e","l","-","3">>)
    @@ (<<"m","u","l","t","i","p","l","e">> :> <<"l","a","b","e","l","-","3">>)
BOTTOM_LABEL_FONT_SIZE == 7


\* ------------------------------------------------------ fill_visa_form.py
\* path.split(".")
Split(path) == SelectSeq(path, LAMBDA tok : tok # ".")

\* get_nested_value over the keys left; None when a key is absent or the
\* value reached is not a dict
RECURSIVE Descend(_, _)
Descend(value, keys) ==
    IF Len(keys) = 0 THEN value
    ELSE IF value.t = "dict" /\ Head(keys) \in DOMAIN value.d
         THEN Descend(value.d[Head(keys)], Tail(keys))
         ELSE NoneV

get_nested_value(d, path) == Descend(d, Split(path))

\* dict.get(key, default) on a value known to be a dict
DictGet(v, key, default) == IF key \in DOMAIN v.d THEN v.d[key] ELSE default

\* One call on the page: the function that made it, where, and what it drew.
DrawOp(by, x, y, w, h, text, font, size) ==
    [by |-> by, x |-> x, y |-> y, w |-> w, h |-> h,
     text |-> text, font |-> font, size |-> size]

\* insert_text: draws only a text that is non-empty after strip()
insert_text(pg, x, y, text, fontsize) ==
    IF Len(text) > 0 /\ Len(Strip(text)) > 0
    THEN Append(pg, DrawOp("insert_text", x, y, 0, 0, text, FONT_NAME, fontsize))
    ELSE pg

insert_checkbox(pg, x, y) ==
    Append(pg, DrawOp("insert_checkbox", x, y, 0, 0, CHECKBOX_CHAR, FONT_NAME,
                      CHECKBOX_FONT_SIZE))

redact_area(pg, x, y, width, height) ==
    Append(pg, DrawOp("draw_rect", x, y, width, height, <<>>, "", 0))

redact_existing_dates(pg) == redact_area(pg, 328, 382, 215, 12)

\* insert_text at a field of the coordinate table, when the table has it
InsertAtField(pg, field, text, fontsize) ==
    IF field \in DOMAIN FIELD_COORDINATES
    THEN insert_text(pg, FIELD_COORDINATES[field][1], FIELD_COORDINATES[field][2],
                     text, fontsize)
    ELSE pg

\* the checkbox mark of fill_checkboxes for key `value` of `category`
MarkCategory(pg, category, value) ==
    IF value \in DOMAIN CHECKBOX_MAPPINGS[category]
       /\ CHECKBOX_MAPPINGS[category][value] \in DOMAIN FIELD_COORDINATES
    THEN LET xy == FIELD_COORDINATES[CHECKBOX_MAPPINGS[category][value]]
         IN  insert_checkbox(pg, xy[1], xy[2])
    ELSE pg

\* DurationOf with the short spelling "multiple" forgotten
DurationOfEntryOnly(visa_type) ==
    IF visa_type = <<"m","u","l","t","i","p","l","e","_","e","n","t","r","y">>
    THEN <<"s","i","x","_","m","o","n","t","h","s">>
    ELSE <<"t","h","r","e","e","_","m","o","n","t","h","s">>

\* Visa Duration - automatically determined by visa type
DurationOf(visa_type) ==
    IF visa_type \in {<<"m","u","l","t","i","p","l","e","_","e","n","t","r","y">>,
                      <<"m","u","l","t","i","p","l","e">>}
    THEN <<"s","i","x","_","m","o","n","t","h","s">>
    ELSE <<"t","h","r","e","e","_","m","o","n","t","h","s">>

\* what visa.get("type", "").lower() is applied to; visa_info defaults to {}
VisaInfo(d) == DictGet(d, "visa_info", DictV(NoEntries))
VisaTypeValue(d) == DictGet(VisaInfo(d), "type", StrV(<<>>))

\* fill_checkboxes: [exc, page]. A visa_info that is no dict has no get(), a
\* type that is no string has no lower(): AttributeError, nothing marked.
fill_checkboxes(pg, d) ==
    IF VisaInfo(d).t # "dict" \/ VisaTypeValue(d).t # "str"
    THEN [exc |-> "AttributeError", page |-> pg]
    ELSE LET visa_type == Lower(VisaTypeValue(d).s)
         IN  [exc |-> "none",
              page |-> MarkCategory(MarkCategory(pg, "visa_type", visa_type),
                                    "visa_duration", DurationOf(visa_type))]

\* FillMapped without the test of the value: a path that is not there is
\* written as the text of None
FillMappedUnchecked(pg, d, pair) ==
    InsertAtField(pg, pair[2], ToText(get_nested_value(d, pair[1])), FONT_SIZE)

\* one turn of the loop of fill_text_fields over TEXT_FIELD_MAPPINGS
FillMapped(pg, d, pair) ==
    LET value == get_nested_value(d, pair[1])
    IN  IF Truthy(value) /\ pair[2] \in DOMAIN FIELD_COORDINATES
        THEN InsertAtField(pg, pair[2], ToText(value), FONT_SIZE)
        ELSE pg

\* FillDerivedDates without the test of the value
FillDerivedDatesUnchecked(pg, d, path, field1, field2) ==
    InsertAtField(InsertAtField(pg, field1, ToText(get_nested_value(d, path)), FONT_SIZE),
                  field2, ToText(get_nested_value(d, path)), FONT_SIZE)

\* a Dubai date written to two fields
FillDerivedDates(pg, d, path, field1, field2) ==
    LET value == get_nested_value(d, path)
    IN  IF Truthy(value)
        THEN InsertAtField(InsertAtField(pg, field1, ToText(value), FONT_SIZE),
                           field2, ToText(value), FONT_SIZE)
        ELSE pg

\* the visa type pricing label
FillVisaLabel(pg, d) ==
    LET visa_type == get_nested_value(d, <<"visa_info", ".", "type">>)
    IN  IF Truthy(visa_type) /\ "visa_type_label" \in DOMAIN FIELD_COORDINATES
        THEN IF visa_type.t # "str"
             THEN [exc |-> "AttributeError", page |-> pg]
             ELSE IF Lower(visa_type.s) \in DOMAIN VISA_TYPE_LABELS
                  THEN [exc |-> "none",
                        page |-> InsertAtField(pg, "visa_type_label",
                                               VISA_TYPE_LABELS[Lower(visa_type.s)],
                                               BOTTOM_LABEL_FONT_SIZE)]
                  ELSE [exc |-> "none", page |-> pg]
        ELSE [exc |-> "none", page |-> pg]


\* extract_full_name: [exc, name]. A personal_info that is no dict has no
\* get(); a part that is truthy and no string has no upper().
NameParts(d) ==
    LET personal == DictGet(d, "personal_info", DictV(NoEntries))
    IN  << DictGet(personal, "first_name", StrV(<<>>)),
           DictGet(personal, "middle_name", StrV(<<>>)),
           DictGet(personal, "last_name", StrV(<<>>)) >>

\* KeepNamePart comparing with "N/A" as it is spelled, without upper()
KeepNamePartExact(part) == Truthy(part) /\ part.s # <<"N", "/", "A">>

KeepNamePart(part) == Truthy(part) /\ Upper(part.s) # <<"N", "/", "A">>

extract_full_name(d) ==
    IF DictGet(d, "personal_info", DictV(NoEntries)).t # "dict"
       \/ \E i \in 1..3 : Truthy(NameParts(d)[i]) /\ NameParts(d)[i].t # "str"
    THEN [exc |-> "AttributeError", name |-> <<>>]
    ELSE LET kept == SelectSeq(NameParts(d), KeepNamePart)
         IN  [exc |-> "none",
              name |-> JoinSpace([i \in 1..Len(kept) |-> kept[i].s])]

\* The translation backend's answer, a text in the target script that is not
\* the text it was given: the backend is external, its answer is kept opaque.
Translated(s) == <<"U+0645">> \o s

\* translate_to_arabic without its try/except: a failed backend call raises
translate_to_arabic_uncaught(text, support, ok) ==
    IF ~support \/ ~Truthy(text) THEN [exc |-> "none", value |-> text]
    ELSE IF text.t # "str" THEN [exc |-> "AttributeError", value |-> text]
    ELSE IF Len(Strip(text.s)) = 0 THEN [exc |-> "none", value |-> text]
    ELSE IF ok THEN [exc |-> "none", value |-> StrV(Translated(text.s))]
    ELSE [exc |-> "Exception", value |-> text]

\* translate_to_arabic on the value `text`: [exc, value]. `ok` is whether the
\* backend call succeeds.
translate_to_arabic(text, support, ok) ==
    IF ~support THEN [exc |-> "none", value |-> text]
    ELSE IF ~Truthy(text) THEN [exc |-> "none", value |-> text]
    ELSE IF text.t # "str" THEN [exc |-> "AttributeError", value |-> text]
    ELSE IF Len(Strip(text.s)) = 0 THEN [exc |-> "none", value |-> text]
    ELSE IF ok THEN [exc |-> "none", value |-> StrV(Translated(text.s))]
    ELSE [exc |-> "none", value |-> text]

\* ARABIC_ACCOMPANIED_BY_PREFIX + translated_name: [exc, text]
PrefixConcat(value) ==
    IF value.t = "str"
    THEN [exc |-> "none", text |-> ARABIC_ACCOMPANIED_BY_PREFIX \o value.s]
    ELSE [exc |-> "TypeError", text |-> <<>>]

\* Bidirectional classes: Arabic letters are right-to-left, blanks neutral,
\* every other character left-to-right.
IsArabic(c) ==
    c \in {"U+FE91","U+FEE4","U+FEAE","U+0627","U+FE8D","U+FED3","U+FED8",
           "U+FE94","U+0645"}
BidiClass(c) == IF IsArabic(c) THEN "R" ELSE IF c \in Whitespace THEN "N" ELSE "L"

\* arabic_reshaper.reshape: a base letter becomes its contextual presentation
\* form; the one base letter here is ALEF, isolated after the non-joining REH
Reshape(s) == [i \in 1..Len(s) |-> IF s[i] = "U+0627" THEN "U+FE8D" ELSE s[i]]

\* bidi get_display: the base direction is that of the first strong
\* character; the runs of the other direction keep (base R) or reverse
\* (base L) their order, and a right-to-left base reverses the line.
GetDisplay(s) ==
    LET n      == Len(s)
        cls    == [j \in 1..n |-> BidiClass(s[j])]
        strong == {j \in 1..n : cls[j] # "N"}
        base   == IF strong = {} THEN "L"
                  ELSE cls[CHOOSE j \in strong : \A j2 \in strong : j <= j2]
        other  == IF base = "L" THEN "R" ELSE "L"
        \* in a run of the other direction: a character of that direction, or
        \* a neutral between two of them with none of the base direction between
        opp    == [j \in 1..n |->
                     \/ cls[j] = other
                     \/ /\ cls[j] = "N"
                        /\ \E a \in 1..(j - 1), b \in (j + 1)..n :
                               /\ cls[a] = other /\ cls[b] = other
                               /\ \A m \in a..b : cls[m] # base]
        runLo  == [j \in 1..n |->
                     CHOOSE a \in 1..j :
                        /\ \A m \in a..j : opp[m]
                        /\ a = 1 \/ ~opp[a - 1]]
        runHi  == [j \in 1..n |->
                     CHOOSE b \in j..n :
                        /\ \A m \in j..b : opp[m]
                        /\ b = n \/ ~opp[b + 1]]
        pos    == [j \in 1..n |->
                     IF base = "R"
                     THEN IF opp[j] THEN (n + 1 - runHi[j]) + (j - runLo[j]) ELSE n + 1 - j
                     ELSE IF opp[j] THEN runLo[j] + (runHi[j] - j) ELSE j]
    IN  [k \in 1..n |-> s[CHOOSE j \in 1..n : pos[j] = k]]

\* reshape_arabic_text
reshape_arabic_text(text, support) ==
    IF support THEN GetDisplay(Reshape(text)) ELSE text

\* font_attempts of insert_arabic_text, by fontname
font_attempts ==
    <<"GeezaPro", "SFArabic", "DejaVuSans", "LiberationSans", "NotoSansArabic",
      "FreeSans", "figo">>

\* AfterAttempt without the break: a success goes on to the next candidate
AfterAttemptNoBreak(i, ok) ==
    IF i < 7 THEN [tpc |-> "fonts", font |-> i + 1]
    ELSE IF ok THEN [tpc |-> "label", font |-> 0]
    ELSE [tpc |-> "helv", font |-> 0]

\* insert_arabic_text after attempt i of the loop ended `ok`: the loop breaks
\* on a success, goes to the next candidate on a failure, and after the last
\* failure the base font is tried.
AfterAttempt(i, ok) ==
    IF ok THEN [tpc |-> "label", font |-> 0]
    ELSE IF i < Len(font_attempts) THEN [tpc |-> "fonts", font |-> i + 1]
    ELSE [tpc |-> "helv", font |-> 0]


\* Steps with the redaction moved behind the filling
StepsRedactLast(e) ==
    IF e = "generate_filled_pdf_bytes"
    THEN <<"open", "checkboxes", "text", "redact", "tobytes", "close", "fullname", "done">>
    ELSE <<"load", "open", "checkboxes", "text", "redact", "save", "close", "done">>

\* Steps with fill_visa_form filling the text fields before the checkboxes
StepsFileTextFirst(e) ==
    IF e = "generate_filled_pdf_bytes"
    THEN <<"open", "redact", "checkboxes", "text", "tobytes", "close", "fullname", "done">>
    ELSE <<"load", "open", "redact", "text", "checkboxes", "save", "close", "done">>

\* the calls of generate_filled_pdf_bytes and of fill_visa_form, in order
Steps(e) ==
    IF e = "generate_filled_pdf_bytes"
    THEN <<"open", "redact", "checkboxes", "text", "tobytes", "close", "fullname", "done">>
    ELSE <<"load", "open", "redact", "checkboxes", "text", "save", "close", "done">>

StepAfter(e, step) ==
    Steps(e)[(CHOOSE k \in 1..Len(Steps(e)) : Steps(e)[k] = step) + 1]

\* ------------------------------------------------------------------- state
VARIABLES
    entry,                \* the entry point called
    data,                 \* the applicant record
    TRANSLATION_SUPPORT,  \* deep_translator was imported
    ARABIC_SUPPORT,       \* arabic_reshaper and bidi were imported
    doc,                  \* the document handle: "none", "open", "closed"
    pc,                   \* the call of the entry point that is next
    tpc,                  \* inside fill_text_fields: the part that is next
    i,                    \* the turn of the loop over TEXT_FIELD_MAPPINGS
    font,                 \* the turn of the loop over font_attempts
    page,                 \* the calls made on the page, in order
    exc,                  \* the exception that left the entry point
    attempts,             \* insert_arabic_text: each draw tried, and how it ended
    pending,              \* insert_arabic_text: display_text
    translation,          \* how translate_to_arabic ended
    full_name,            \* the result of extract_full_name
    output                \* what was serialized: "none", "bytes", "file"

vars == <<entry, data, TRANSLATION_SUPPORT, ARABIC_SUPPORT, doc, pc, tpc, i, font,
          page, exc, attempts, pending, translation, full_name, output>>

inputs == <<entry, data, TRANSLATION_SUPPORT, ARABIC_SUPPORT>>

\* ------------------------------------------------------------------ inputs
\* The records a fill operation is started on. No schema is enforced, so a
\* value may be a string (also empty, blank or padded), a number, a boolean,
\* null or a dict wherever the code expects a string or a dict.
Blanks == {[k \in 1..n |-> " "] : n \in 1..MaxPad}
Ints   == {IntV(n) : n \in 0..MaxInt}

LeafValues ==
    {StrV(<<"A", "b">>), StrV(<<>>), StrV(<<" ", "a", " ">>),
     BoolV(FALSE), BoolV(TRUE), NoneV,
     DictV(NoEntries), DictV("k" :> StrV(<<"v">>))}
    \cup {StrV(b) : b \in Blanks} \cup Ints

\* key :> value, or no entry at all when `present` is FALSE
Entry(present, key, value) == IF present THEN key :> value ELSE NoEntries

\* the record holding `value` at the split path `keys` and nothing else
RECURSIVE Only(_, _)
Only(keys, value) ==
    IF Len(keys) = 0 THEN value ELSE DictV(Head(keys) :> Only(Tail(keys), value))

\* visa_info.type, in the spellings of the mapping, in other cases, padded,
\* unrecognized, empty, and not a string
VisaTypeValues ==
    {StrV(k) : k \in DOMAIN CHECKBOX_MAPPINGS["visa_type"]}
    \cup {StrV(<<"S","i","n","g","l","e">>), StrV(<<"M","U","L","T","I","P","L","E">>),
          StrV(<<"M","u","l","t","i","p","l","e","_","E","n","t","r","y">>),
          StrV(<<"D","o","u","b","l","e">>),
          StrV(<<"t","o","u","r","i","s","t">>), StrV(<<>>),
          StrV(<<" ","m","u","l","t","i","p","l","e">>),
          BoolV(TRUE), NoneV, DictV(NoEntries)}
    \cup Ints

VisaRecords ==
    {DictV(NoEntries)}
    \cup {DictV("visa_info" :> v) :
            v \in {StrV(<<"x">>), NoneV, DictV(NoEntries),
                   DictV("duration" :> StrV(<<"6","_","m","o","n","t","h","s">>))}}
    \cup {DictV("visa_info" :> DictV(("type" :> t) @@ Entry(dur, "duration",
                                      StrV(<<"1","5","_","d","a","y","s">>)))) :
            t \in VisaTypeValues, dur \in BOOLEAN}

\* personal_info with each name part absent, empty, blank, "N/A" in either
\* case, a name, null or a number
Ali    == <<"A","l","i">>
Haddad == <<"H","a","d","d","a","d">>
Jean   == <<"J","e","a","n">>
Dupont == <<"D","u","p","o","n","t">>
NA     == <<"N","/","A">>

PartValues(names) ==
    {StrV(nm) : nm \in names}
    \cup {StrV(<<>>), StrV(NA), StrV(<<"n","/","a">>), NoneV}
    \cup {StrV(b) : b \in Blanks} \cup {IntV(MaxInt)}

NameRecords ==
    {DictV("personal_info" :> DictV(f @@ m @@ l)) :
        f \in {NoEntries} \cup {"first_name" :> v : v \in PartValues({Ali, Jean})},
        m \in {NoEntries} \cup {"middle_name" :> v : v \in PartValues({<<"M",".">>})},
        l \in {NoEntries} \cup {"last_name" :> v : v \in PartValues({Haddad, Dupont})}}
    \cup {DictV("personal_info" :> v) : v \in {StrV(<<"x">>), NoneV}}

\* one mapped path present, with every kind of value; a group that is no dict
Groups ==
    {"personal_info", "passport_info", "residence_info", "travel_history",
     "trip_info", "accommodation_info", "visa_info"}

PathRecords ==
    {Only(Split(TEXT_FIELD_MAPPINGS[k][1]), v) :
        k \in 1..Len(TEXT_FIELD_MAPPINGS), v \in LeafValues}
    \cup {DictV(g :> v) : g \in Groups \ {"visa_info"}, v \in {StrV(<<"x">>), IntV(MaxInt), NoneV}}

\* trip_info with any of its dates, mapped and derived
Date(d) == StrV(<<"0", d, "/", "0", "1", "/", "2", "6">>)
TripRecords ==
    {DictV("trip_info" :> DictV(Entry(a, "start_date", Date("1"))
                                @@ Entry(b, "end_date", Date("2"))
                                @@ Entry(c, "arrival_date", Date("3"))
                                @@ Entry(e, "departure_date", Date("4"))
                                @@ Entry(TRUE, "departure_date_from_dubai", f)
                                @@ Entry(TRUE, "arrival_date_to_dubai", g))) :
        a \in BOOLEAN, b \in BOOLEAN, c \in BOOLEAN, e \in BOOLEAN,
        f \in {Date("5"), NoneV}, g \in {Date("6"), StrV(<<>>)}}
    \cup {Only(<<"trip_info", key>>, v) :
            key \in {"departure_date_from_dubai", "arrival_date_to_dubai"},
            v \in LeafValues}

\* accompany_name and the flat key accompanied_by_arabic
Mary == <<"M","a","r","y">>
AccompanyRecords ==
    {DictV(Entry(a, "accompany_name", v) @@ Entry(b, "accompanied_by_arabic", StrV(<<"x">>))) :
        a \in BOOLEAN, b \in BOOLEAN,
        v \in LeafValues \cup {StrV(Mary), StrV(<<"M","a","r","y"," ","A","n","n">>)}}

\* a record with every group filled in
FullRecord ==
    DictV(("personal_info" :> DictV(("first_name" :> StrV(Ali))
                                    @@ ("middle_name" :> StrV(NA))
                                    @@ ("last_name" :> StrV(Haddad))
                                    @@ ("place_of_birth" :> StrV(<<"B","e","i","r","u","t">>))
                                    @@ ("email" :> StrV(<<"a","@","b">>))))
          @@ ("passport_info" :> DictV("passport_number" :> StrV(<<"P","1">>)))
          @@ ("trip_info" :> DictV(("start_date" :> Date("1"))
                                   @@ ("departure_date_from_dubai" :> Date("5"))
                                   @@ ("arrival_date_to_dubai" :> Date("6"))))
          @@ ("visa_info" :> DictV("type" :> StrV(<<"M","u","l","t","i","p","l","e">>)))
          @@ ("signature_date" :> Date("7"))
          @@ ("accompany_name" :> StrV(Mary))
          @@ ("accompanied_by_arabic" :> StrV(<<"x">>)))

\* records that also hold the categories fill_checkboxes leaves alone: sex,
\* marital status, purpose of trip, and a duration of their own
CategoryRecords ==
    {DictV(("personal_info" :> DictV(("first_name" :> StrV(Ali))
                                     @@ ("sex" :> StrV(sex))
                                     @@ ("marital_status" :> StrV(status))))
           @@ ("trip_info" :> DictV(("purpose_of_trip" :> StrV(purpose))
                                    @@ ("start_date" :> Date("1"))))
           @@ ("visa_info" :> DictV(("type" :> StrV(type))
                                    @@ ("duration" :> StrV(<<"o","n","e","_","m","o","n","t","h">>))))) :
        sex \in {<<"m","a","l","e">>, <<"f">>},
        status \in {<<"s","i","n","g","l","e">>, <<"m","a","r","r","i","e","d">>},
        purpose \in {<<"t","o","u","r","i","s","m">>, <<"b","u","s","i","n","e","s","s">>},
        type \in {<<"s","i","n","g","l","e">>, <<"m","u","l","t","i","p","l","e">>,
                  <<"t","o","u","r","i","s","t">>}}

Records ==
    VisaRecords \cup NameRecords \cup PathRecords \cup TripRecords
    \cup AccompanyRecords \cup {FullRecord} \cup CategoryRecords

EntryPoints == {"generate_filled_pdf_bytes", "fill_visa_form"}


\* ----------------------------------------------------------------- actions
\* Before the entry point's first call. The two import flags are read only on
\* the accompany_name path, and vary with the records that take it.
Init ==
    /\ entry \in EntryPoints
    /\ data \in Records
    /\ TRANSLATION_SUPPORT \in BOOLEAN
    /\ ARABIC_SUPPORT \in BOOLEAN
    /\ (data \notin AccompanyRecords \cup {FullRecord})
          => (TRANSLATION_SUPPORT /\ ARABIC_SUPPORT)
    /\ doc = "none"
    /\ pc = Steps(entry)[1]
    /\ tpc = "map"
    /\ i = 1
    /\ font = 0
    /\ page = <<>>
    /\ exc = "none"
    /\ attempts = <<>>
    /\ pending = <<>>
    /\ translation = "none"
    /\ full_name = <<>>
    /\ output = "none"

\* an exception leaves the entry point: nothing after the raising call runs
Raise(e) == /\ exc' = e
            /\ pc' = "raised"

\* fill_visa_form: os.makedirs and load_applicant_data
LoadApplicantData ==
    /\ pc = "load"
    /\ pc' = StepAfter(entry, "load")
    /\ UNCHANGED <<inputs, doc, tpc, i, font, page, exc, attempts, pending,
                   translation, full_name, output>>

\* doc = fitz.open(template_path); page = doc[0]
OpenTemplate ==
    /\ pc = "open"
    /\ doc' = "open"
    /\ pc' = StepAfter(entry, "open")
    /\ UNCHANGED <<inputs, tpc, i, font, page, exc, attempts, pending,
                   translation, full_name, output>>

\* redact_existing_dates(page)
RedactExistingDates ==
    /\ pc = "redact"
    /\ page' = redact_existing_dates(page)
    /\ pc' = StepAfter(entry, "redact")
    /\ UNCHANGED <<inputs, doc, tpc, i, font, exc, attempts, pending,
                   translation, full_name, output>>

\* fill_checkboxes(page, data)
FillCheckboxes ==
    /\ pc = "checkboxes"
    /\ LET r == fill_checkboxes(page, data)
       IN  /\ page' = r.page
           /\ IF r.exc = "none"
              THEN pc' = StepAfter(entry, "checkboxes") /\ exc' = exc
              ELSE Raise(r.exc)
    /\ UNCHANGED <<inputs, doc, tpc, i, font, attempts, pending, translation,
                   full_name, output>>

\* fill_text_fields: one turn of the loop over TEXT_FIELD_MAPPINGS
MapField ==
    /\ pc = "text" /\ tpc = "map"
    /\ page' = FillMapped(page, data, TEXT_FIELD_MAPPINGS[i])
    /\ i' = i + 1
    /\ tpc' = IF i = Len(TEXT_FIELD_MAPPINGS) THEN "departure" ELSE "map"
    /\ UNCHANGED <<inputs, doc, pc, font, exc, attempts, pending, translation,
                   full_name, output>>

\* fill_text_fields: departure_date_from_dubai to trip_start_date and arrival_date
DepartureDates ==
    /\ pc = "text" /\ tpc = "departure"
    /\ page' = FillDerivedDates(page, data,
                                <<"trip_info", ".", "departure_date_from_dubai">>,
                                "trip_start_date", "arrival_date")
    /\ tpc' = "arrival"
    /\ UNCHANGED <<inputs, doc, pc, i, font, exc, attempts, pending, translation,
                   full_name, output>>

\* fill_text_fields: arrival_date_to_dubai to trip_end_date and departure_date
ArrivalDates ==
    /\ pc = "text" /\ tpc = "arrival"
    /\ page' = FillDerivedDates(page, data,
                                <<"trip_info", ".", "arrival_date_to_dubai">>,
                                "trip_end_date", "departure_date")
    /\ tpc' = "accompany"
    /\ UNCHANGED <<inputs, doc, pc, i, font, exc, attempts, pending, translation,
                   full_name, output>>

\* how the translation of a truthy accompany_name ended
TranslationOutcome(text, ok) ==
    IF ~TRANSLATION_SUPPORT THEN "unavailable"
    ELSE IF text.t # "str" THEN "not a string"
    ELSE IF Len(Strip(text.s)) = 0 THEN "skipped"
    ELSE IF ok THEN "translated" ELSE "failed"

\* fill_text_fields: accompany_name is translated, prefixed and handed to
\* insert_arabic_text, which reshapes it and starts on its font candidates
Accompany ==
    /\ pc = "text" /\ tpc = "accompany"
    /\ LET accompany_name == get_nested_value(data, <<"accompany_name">>)
       IN  IF Truthy(accompany_name) /\ "accompanied_by_arabic" \in DOMAIN FIELD_COORDINATES
           THEN \E ok \in BOOLEAN :
                  LET r == translate_to_arabic(accompany_name, TRANSLATION_SUPPORT, ok)
                      c == PrefixConcat(r.value)
                  IN  /\ translation' = TranslationOutcome(accompany_name, ok)
                      /\ IF r.exc # "none"
                         THEN Raise(r.exc) /\ UNCHANGED <<tpc, font, pending>>
                         ELSE IF c.exc # "none"
                         THEN Raise(c.exc) /\ UNCHANGED <<tpc, font, pending>>
                         ELSE IF Len(c.text) > 0 /\ Len(Strip(c.text)) > 0
                         THEN /\ pending' = reshape_arabic_text(c.text, ARABIC_SUPPORT)
                              /\ tpc' = "fonts"
                              /\ font' = 1
                              /\ UNCHANGED <<pc, exc>>
                         ELSE /\ tpc' = "label"
                              /\ UNCHANGED <<pc, exc, font, pending>>
           ELSE /\ tpc' = "label"
                /\ UNCHANGED <<pc, exc, font, pending, translation>>
    /\ UNCHANGED <<inputs, doc, i, page, attempts, full_name, output>>

\* the draw of insert_arabic_text with font `name`
ArabicDraw(pg, name, fontsize) ==
    LET xy == FIELD_COORDINATES["accompanied_by_arabic"]
    IN  Append(pg, DrawOp("insert_arabic_text", xy[1], xy[2], 0, 0, pending, name, fontsize))

\* insert_arabic_text: one turn of the loop over font_attempts; the draw
\* succeeds or raises, as the environment has the font or not
FontAttempt ==
    /\ pc = "text" /\ tpc = "fonts"
    /\ \E ok \in BOOLEAN :
          /\ attempts' = Append(attempts, [font |-> font_attempts[font], ok |-> ok])
          /\ page' = IF ok THEN ArabicDraw(page, font_attempts[font], BOTTOM_LABEL_FONT_SIZE)
                     ELSE page
          /\ tpc' = AfterAttempt(font, ok).tpc
          /\ font' = AfterAttempt(font, ok).font
    /\ UNCHANGED <<inputs, doc, pc, i, exc, pending, translation, full_name, output>>

\* insert_arabic_text: the last try, with the base font; its error is caught
HelvFallback ==
    /\ pc = "text" /\ tpc = "helv"
    /\ \E ok \in BOOLEAN :
          /\ attempts' = Append(attempts, [font |-> "helv", ok |-> ok])
          /\ page' = IF ok THEN ArabicDraw(page, "helv", BOTTOM_LABEL_FONT_SIZE) ELSE page
    /\ tpc' = "label"
    /\ UNCHANGED <<inputs, doc, pc, i, font, exc, pending, translation, full_name, output>>

\* fill_text_fields: the visa type pricing label; fill_text_fields returns
VisaLabel ==
    /\ pc = "text" /\ tpc = "label"
    /\ LET r == FillVisaLabel(page, data)
       IN  /\ page' = r.page
           /\ IF r.exc = "none"
              THEN pc' = StepAfter(entry, "text") /\ exc' = exc
              ELSE Raise(r.exc)
    /\ tpc' = "returned"
    /\ UNCHANGED <<inputs, doc, i, font, attempts, pending, translation, full_name, output>>

\* doc.tobytes(...) or doc.save(output_path): the library writes the document
\* or raises
Serialize ==
    /\ pc \in {"tobytes", "save"}
    /\ \E ok \in BOOLEAN :
          IF ok
          THEN /\ output' = IF pc = "tobytes" THEN "bytes" ELSE "file"
               /\ pc' = StepAfter(entry, pc)
               /\ exc' = exc
          ELSE /\ output' = output
               /\ Raise("RuntimeError")
    /\ UNCHANGED <<inputs, doc, tpc, i, font, page, attempts, pending, translation,
                   full_name>>

\* doc.close()
Close ==
    /\ pc = "close"
    /\ doc' = "closed"
    /\ pc' = StepAfter(entry, "close")
    /\ UNCHANGED <<inputs, tpc, i, font, page, exc, attempts, pending, translation,
                   full_name, output>>

\* generate_filled_pdf_bytes: full_name = extract_full_name(data); return
ExtractFullName ==
    /\ pc = "fullname"
    /\ LET r == extract_full_name(data)
       IN  /\ full_name' = r.name
           /\ IF r.exc = "none"
              THEN pc' = StepAfter(entry, "fullname") /\ exc' = exc
              ELSE Raise(r.exc)
    /\ UNCHANGED <<inputs, doc, tpc, i, font, page, attempts, pending, translation,
                   output>>

Next ==
    \/ LoadApplicantData
    \/ OpenTemplate
    \/ RedactExistingDates
    \/ FillCheckboxes
    \/ MapField
    \/ DepartureDates
    \/ ArrivalDates
    \/ Accompany
    \/ FontAttempt
    \/ HelvFallback
    \/ VisaLabel
    \/ Serialize
    \/ Close
    \/ ExtractFullName

Spec == Init /\ [][Next]_vars


\* ------------------------------------------------------------- properties
\* the calls on the page made by function `by` at the point of field `field`
OpsAt(by, field) ==
    {k \in 1..Len(page) :
        /\ page[k].by = by
        /\ <<page[k].x, page[k].y>> = FIELD_COORDINATES[field]}

OpsBy(by) == {k \in 1..Len(page) : page[k].by = by}

VisaTypeBoxes == {"checkbox_single_entry", "checkbox_two_entry", "checkbox_multiple_entry"}
DurationBoxes == {"checkbox_15_days", "checkbox_one_month", "checkbox_three_months",
                  "checkbox_six_months"}

MarksIn(boxes) == UNION {OpsAt("insert_checkbox", b) : b \in boxes}

\* the record's visa_info.type is a string whose lowercase is a key of the
\* visa_type mapping
RecognizedType ==
    /\ "visa_info" \in DOMAIN data.d
    /\ data.d["visa_info"].t = "dict"
    /\ "type" \in DOMAIN data.d["visa_info"].d
    /\ data.d["visa_info"].d["type"].t = "str"
    /\ Lower(data.d["visa_info"].d["type"].s) \in DOMAIN CHECKBOX_MAPPINGS["visa_type"]

LowerType == Lower(data.d["visa_info"].d["type"].s)

\* fill_checkboxes has returned or raised, and nothing has run since
JustAfterCheckboxes == pc \in {"text", "raised"} /\ tpc = "map" /\ i = 1

\* fill_checkboxes has returned
CheckboxesReturned == pc \in {"text", "tobytes", "save", "close", "fullname", "done"}

\* C1: for a record whose visa_info.type, lowercased, is a key of the
\* visa_type mapping, fill_checkboxes marks exactly one visa-type checkbox,
\* the one the mapping names, and exactly one duration checkbox:
\* checkbox_six_months for "multiple" and "multiple_entry",
\* checkbox_three_months for every other recognized type, whatever duration
\* the record holds.
C1_OneTypeOneDuration ==
    (JustAfterCheckboxes /\ RecognizedType) =>
        /\ pc = "text"
        /\ Cardinality(MarksIn(VisaTypeBoxes)) = 1
        /\ Cardinality(OpsAt("insert_checkbox",
                             CHECKBOX_MAPPINGS["visa_type"][LowerType])) = 1
        /\ Cardinality(MarksIn(DurationBoxes)) = 1
        /\ Cardinality(OpsBy("insert_checkbox")) = 2
        /\ IF LowerType \in {<<"m","u","l","t","i","p","l","e">>,
                             <<"m","u","l","t","i","p","l","e","_","e","n","t","r","y">>}
           THEN Cardinality(OpsAt("insert_checkbox", "checkbox_six_months")) = 1
           ELSE Cardinality(OpsAt("insert_checkbox", "checkbox_three_months")) = 1

\* C1 witness: the type "MULTIPLE" beside a duration of "15_days" has been
\* marked as multiple entry, six months
C1_Witness ==
    /\ JustAfterCheckboxes
    /\ RecognizedType
    /\ data.d["visa_info"].d["type"].s = <<"M","U","L","T","I","P","L","E">>
    /\ "duration" \in DOMAIN data.d["visa_info"].d
    /\ OpsAt("insert_checkbox", "checkbox_multiple_entry") # {}
    /\ OpsAt("insert_checkbox", "checkbox_six_months") # {}

\* C2: for a record whose visa type is absent or is a value not in the
\* visa_type mapping, fill_checkboxes marks no visa-type checkbox, marks the
\* three-month checkbox and raises no error.
C2_UnrecognizedNoError ==
    (JustAfterCheckboxes /\ ~RecognizedType) =>
        /\ exc = "none"
        /\ MarksIn(VisaTypeBoxes) = {}
        /\ Cardinality(OpsAt("insert_checkbox", "checkbox_three_months")) = 1


\* the (path, field) pairs, and a path's keys looked up in the record one by
\* one (every mapped path has one or two keys)
Pairs == 1..Len(TEXT_FIELD_MAPPINGS)
PathOf(k)  == Split(TEXT_FIELD_MAPPINGS[k][1])
FieldOf(k) == TEXT_FIELD_MAPPINGS[k][2]

Traversable(keys) ==
    /\ keys[1] \in DOMAIN data.d
    /\ Len(keys) = 2 =>
          /\ data.d[keys[1]].t = "dict"
          /\ keys[2] \in DOMAIN data.d[keys[1]].d

ValueAt(keys) ==
    IF Len(keys) = 1 THEN data.d[keys[1]] ELSE data.d[keys[1]].d[keys[2]]

\* the path holds a string that is not blank
HoldsText(keys) ==
    /\ Traversable(keys)
    /\ ValueAt(keys).t = "str"
    /\ \E c \in 1..Len(ValueAt(keys).s) : ValueAt(keys).s[c] \notin Whitespace

\* the text drawn at a field, by insert_text or by insert_arabic_text
DrawnAt(field) == OpsAt("insert_text", field) \cup OpsAt("insert_arabic_text", field)

\* the fields fill_text_fields also writes from another key of the record
DerivedFrom ==
       ("trip_start_date" :> <<"trip_info", "departure_date_from_dubai">>)
    @@ ("arrival_date"    :> <<"trip_info", "departure_date_from_dubai">>)
    @@ ("trip_end_date"   :> <<"trip_info", "arrival_date_to_dubai">>)
    @@ ("departure_date"  :> <<"trip_info", "arrival_date_to_dubai">>)
    @@ ("accompanied_by_arabic" :> <<"accompany_name">>)

\* the loop over TEXT_FIELD_MAPPINGS is over
LoopOver == pc # "raised" /\ (pc = "text" => tpc # "map") /\ CheckboxesReturned

\* C3 as claimed: when the path of a (path, field) pair cannot be traversed
\* in the record, the fill operation writes nothing for that field.
C3_NothingWrittenForField ==
    \A k \in Pairs : ~Traversable(PathOf(k)) => DrawnAt(FieldOf(k)) = {}

\* C3, amended: when the path of a (path, field) pair cannot be traversed,
\* the loop over the mapping writes nothing for that field and raises no
\* error, and the remaining pairs are still processed (every pair whose path
\* holds a non-blank string is written at its field). The field is written
\* only if it is one of the five derived fields and its other source
\* (departure_date_from_dubai, arrival_date_to_dubai, accompany_name) is
\* there, and then with that source's value.
C3_SkipOnMissing ==
    /\ \A k \in Pairs :
          ~Traversable(PathOf(k)) =>
             /\ (pc = "text" /\ tpc \in {"map", "departure"}) => DrawnAt(FieldOf(k)) = {}
             /\ \A o \in DrawnAt(FieldOf(k)) :
                   /\ FieldOf(k) \in DOMAIN DerivedFrom
                   /\ Traversable(DerivedFrom[FieldOf(k)])
                   /\ Truthy(ValueAt(DerivedFrom[FieldOf(k)]))
                   /\ page[o].by = "insert_text" =>
                         page[o].text = ToText(ValueAt(DerivedFrom[FieldOf(k)]))
    /\ ~(pc = "raised" /\ tpc \in {"map", "departure"} /\ i > 1)
    /\ LoopOver =>
          /\ i = Len(TEXT_FIELD_MAPPINGS) + 1
          /\ \A k \in Pairs :
                HoldsText(PathOf(k)) =>
                   \E o \in OpsAt("insert_text", FieldOf(k)) :
                      page[o].text = ValueAt(PathOf(k)).s

\* C3 witness: trip_info has an end_date but no start_date; the loop is over,
\* end_date is written, and trip_start_date is written from
\* departure_date_from_dubai
C3_Witness ==
    /\ pc = "done"
    /\ Traversable(<<"trip_info", "end_date">>)
    /\ ~Traversable(<<"trip_info", "start_date">>)
    /\ ~Traversable(<<"personal_info", "first_name">>)
    /\ OpsAt("insert_text", "first_name") = {}
    /\ Cardinality(OpsAt("insert_text", "trip_end_date")) = 2
    /\ Cardinality(OpsAt("insert_text", "trip_start_date")) = 1

\* the record's accompany_name is a non-empty string
NamedCompanion ==
    /\ "accompany_name" \in DOMAIN data.d
    /\ data.d["accompany_name"].t = "str"
    /\ Len(data.d["accompany_name"].s) > 0

\* the prefix immediately followed by the untranslated accompany_name, as the
\* page is given it: in display order when the shaping libraries are there
PrefixedOriginal ==
    IF ARABIC_SUPPORT
    THEN GetDisplay(Reshape(ARABIC_ACCOMPANIED_BY_PREFIX \o data.d["accompany_name"].s))
    ELSE ARABIC_ACCOMPANIED_BY_PREFIX \o data.d["accompany_name"].s

\* the accompany_name part of fill_text_fields is over: returned or raised
AccompanyOver ==
    \/ pc = "text" /\ tpc \in {"label", "returned"}
    \/ pc \in {"tobytes", "save", "close", "fullname", "done"}
    \/ pc = "raised" /\ tpc \in {"accompany", "fonts", "helv", "label"}

\* C4 as claimed: when translation fails or is unavailable for a record with
\* a non-empty accompany_name, no exception is raised and the text drawn at
\* the accompanied_by_arabic point is the prefix followed by the original
\* name.
C4_OriginalNameDrawn ==
    (AccompanyOver /\ NamedCompanion /\ translation \in {"unavailable", "failed"}) =>
        /\ ~(pc = "raised" /\ tpc = "accompany")
        /\ \E o \in OpsAt("insert_arabic_text", "accompanied_by_arabic") :
              page[o].text = PrefixedOriginal

\* C4, amended: when translation fails or is unavailable for a record whose
\* accompany_name is a non-empty string, the translation step raises nothing
\* and the text handed to the page at the accompanied_by_arabic point is the
\* prefix immediately followed by the original name, at the bottom-label
\* size; it is drawn once if one of the font attempts succeeds, and not at
\* all if every font attempt, the base font included, fails.
C4_OriginalNameOnFailure ==
    (NamedCompanion /\ translation \in {"unavailable", "failed"}) =>
        /\ ~(pc = "raised" /\ tpc = "accompany")
        /\ pending = PrefixedOriginal
        /\ OpsBy("insert_arabic_text") = OpsAt("insert_arabic_text", "accompanied_by_arabic")
        /\ \A o \in OpsBy("insert_arabic_text") :
              /\ page[o].text = PrefixedOriginal
              /\ page[o].size = BOTTOM_LABEL_FONT_SIZE
        /\ AccompanyOver =>
              Cardinality(OpsBy("insert_arabic_text"))
                 = IF \E a \in 1..Len(attempts) : attempts[a].ok THEN 1 ELSE 0

\* C4 witness: translation of "Mary" failed, without the shaping libraries,
\* and the prefix followed by "Mary" is on the page
C4_Witness ==
    /\ pc = "done"
    /\ NamedCompanion
    /\ data.d["accompany_name"].s = Mary
    /\ translation = "failed"
    /\ ~ARABIC_SUPPORT
    /\ \E o \in OpsAt("insert_arabic_text", "accompanied_by_arabic") :
          page[o].text = <<"U+FE91","U+FEE4","U+FEAE","U+0627","U+FED3","U+FED8",
                           "U+FE94"," "," ","M","a","r","y">>


\* a name part of the record as extract_full_name reads it: "" when
\* personal_info or the part is not there
PartOf(key) ==
    IF "personal_info" \in DOMAIN data.d /\ key \in DOMAIN data.d["personal_info"].d
    THEN data.d["personal_info"].d[key]
    ELSE StrV(<<>>)

\* the part is neither empty nor "N/A" in any case
KeptPart(key) ==
    /\ PartOf(key).t = "str"
    /\ PartOf(key).s # <<>>
    /\ Lower(PartOf(key).s) # <<"n", "/", "a">>

KeptText(key) == IF KeptPart(key) THEN <<PartOf(key).s>> ELSE <<>>
KeptTexts == KeptText("first_name") \o KeptText("middle_name") \o KeptText("last_name")

\* the kept parts with one space between consecutive parts
SpacedNames ==
    CASE Len(KeptTexts) = 0 -> <<>>
      [] Len(KeptTexts) = 1 -> KeptTexts[1]
      [] Len(KeptTexts) = 2 -> KeptTexts[1] \o <<" ">> \o KeptTexts[2]
      [] Len(KeptTexts) = 3 -> KeptTexts[1] \o <<" ">> \o KeptTexts[2] \o <<" ">> \o KeptTexts[3]

NoBlankIn(t) == \A c \in 1..Len(t) : t[c] # " "

\* generate_filled_pdf_bytes has returned, extract_full_name with it
FullNameReturned == entry = "generate_filled_pdf_bytes" /\ pc = "done"

\* C5: extract_full_name returns the first, middle and last name of
\* personal_info in that order, without the parts that are empty or "N/A" in
\* any case, with exactly one space between consecutive kept parts: when no
\* kept part holds a blank, the name neither starts nor ends with a space and
\* holds no two spaces in a row. Ali, N/A, Haddad gives "Ali Haddad".
C5_FullName ==
    FullNameReturned =>
        /\ full_name = SpacedNames
        /\ (\A k \in 1..Len(KeptTexts) : NoBlankIn(KeptTexts[k])) =>
              /\ Len(full_name) > 0 => (full_name[1] # " " /\ full_name[Len(full_name)] # " ")
              /\ \A c \in 1..(Len(full_name) - 1) :
                    ~(full_name[c] = " " /\ full_name[c + 1] = " ")
        /\ (PartOf("first_name") = StrV(Ali) /\ PartOf("middle_name") = StrV(NA)
              /\ PartOf("last_name") = StrV(Haddad)) =>
              full_name = <<"A","l","i"," ","H","a","d","d","a","d">>

\* C5 witness: first "Ali", middle "n/a", last "Haddad" has returned
\* "Ali Haddad"
C5_Witness ==
    /\ FullNameReturned
    /\ PartOf("first_name") = StrV(Ali)
    /\ PartOf("middle_name") = StrV(<<"n", "/", "a">>)
    /\ PartOf("last_name") = StrV(Haddad)
    /\ full_name = <<"A","l","i"," ","H","a","d","d","a","d">>

\* C6: in both entry points the white rectangle over the pre-printed dates
\* is the first call on the page and the only draw_rect: it is drawn once,
\* before every checkbox mark and every text, those at trip_start_date and
\* trip_end_date among them, and never after a write.
C6_RedactionFirst ==
    /\ \A k \in 1..Len(page) : (page[k].by = "draw_rect") <=> (k = 1)
    /\ (CheckboxesReturned \/ pc \in {"checkboxes", "raised"}) =>
          /\ Len(page) >= 1
          /\ page[1] = DrawOp("draw_rect", 328, 382, 215, 12, <<>>, "", 0)

\* C6 witness: fill_visa_form is done, with both trip dates written over the
\* redacted region and a checkbox marked
C6_Witness ==
    /\ entry = "fill_visa_form"
    /\ pc = "done"
    /\ OpsAt("insert_text", "trip_start_date") # {}
    /\ OpsAt("insert_text", "trip_end_date") # {}
    /\ OpsBy("insert_checkbox") # {}
    /\ page[1].by = "draw_rect"

\* C7: the document handle opened by generate_filled_pdf_bytes or
\* fill_visa_form is closed on every exit path, also when an error is raised
\* by a step: no execution ends with the handle open.
C7_HandleClosedOnExit == pc \in {"done", "raised"} => doc = "closed"

\* the record holding only personal_info.first_name = "Jean" and
\* personal_info.last_name = "Dupont"
JeanDupont ==
    DictV("personal_info" :> DictV(("first_name" :> StrV(Jean))
                                   @@ ("last_name" :> StrV(Dupont))))

TextWrites == SelectSeq(page, LAMBDA o : o.by \in {"insert_text", "insert_arabic_text"})

\* C8: for the record holding only first_name "Jean" and last_name "Dupont"
\* the fill operation writes "Jean" at the point of first_name and "Dupont"
\* at the point of last_name, in the default font and size, and no other
\* text: no other mapped field, no derived date, no accompaniment text and
\* no visa-type label.
C8_JeanDupontOnly ==
    data = JeanDupont =>
        /\ pc # "raised" \/ tpc = "returned"
        /\ TextWrites =
              (IF i > 1 THEN <<DrawOp("insert_text", 67, 154, 0, 0, Jean, "helv", 9)>>
               ELSE <<>>)
              \o (IF i > 3 THEN <<DrawOp("insert_text", 323, 154, 0, 0, Dupont, "helv", 9)>>
                  ELSE <<>>)

\* C8 witness: the fill of that record is done with its two texts written
C8_Witness == data = JeanDupont /\ pc = "done" /\ Len(TextWrites) = 2

\* visa_info.type is a string
TypeIsText ==
    /\ "visa_info" \in DOMAIN data.d
    /\ data.d["visa_info"].t = "dict"
    /\ "type" \in DOMAIN data.d["visa_info"].d
    /\ data.d["visa_info"].d["type"].t = "str"

\* the texts written at the bottom-label size by insert_text
LabelWrites == {k \in OpsBy("insert_text") : page[k].size = BOTTOM_LABEL_FONT_SIZE}

\* C9: once fill_text_fields has returned, a record whose visa_info.type,
\* lowercased, is an entry of the visa-type label table has that entry's
\* label written at the bottom-label font size, and a record whose type
\* matches no entry has no label written.
C9_LabelWritten ==
    (tpc = "returned" /\ TypeIsText) =>
        IF LowerType \in DOMAIN VISA_TYPE_LABELS
        THEN \E k \in LabelWrites : page[k].text = VISA_TYPE_LABELS[LowerType]
        ELSE LabelWrites = {}

\* insert_arabic_text is over
FontsOver == Len(attempts) > 0 /\ ~(pc = "text" /\ tpc \in {"fonts", "helv"})

\* C10: insert_arabic_text tries the font candidates in their listed order,
\* stops at the first draw that succeeds (every attempt before the last one
\* failed, and the text is drawn at most once, in the font that succeeded),
\* tries "helv" once, after the candidates, if and only if every candidate
\* failed, and raises nothing, also when the "helv" attempt fails: the fill
\* goes on to the label.
C10_FontFallback ==
    LET n == Len(attempts)
    IN  /\ n <= Len(font_attempts) + 1
        /\ \A k \in 1..n :
              attempts[k].font = IF k <= Len(font_attempts) THEN font_attempts[k] ELSE "helv"
        /\ \A k \in 1..(n - 1) : ~attempts[k].ok
        /\ Cardinality(OpsBy("insert_arabic_text"))
              = Cardinality({k \in 1..n : attempts[k].ok})
        /\ \A o \in OpsBy("insert_arabic_text") :
              page[o].font = attempts[n].font /\ page[o].text = pending
        /\ (pc = "text" /\ tpc = "fonts") => n = font - 1
        /\ (pc = "text" /\ tpc = "helv") => n = Len(font_attempts)
        /\ FontsOver => (attempts[n].ok \/ n = Len(font_attempts) + 1)
        /\ ~(pc = "raised" /\ tpc \in {"fonts", "helv"})
        /\ (pc = "text" /\ tpc = "label") => exc = "none"

\* C10 witness: every candidate and "helv" failed, and the fill operation
\* went on to its end
C10_Witness ==
    /\ pc = "done"
    /\ Len(attempts) = Len(font_attempts) + 1
    /\ \A k \in 1..Len(attempts) : ~attempts[k].ok
    /\ OpsBy("insert_arabic_text") = {}


\* the loop over TEXT_FIELD_MAPPINGS has just ended: nothing else of
\* fill_text_fields has written yet
LoopJustOver == pc = "text" /\ tpc = "departure"

\* the path resolves to a value (null is no value) whose text is not blank
ResolvesToText(keys) ==
    /\ Traversable(keys)
    /\ ValueAt(keys).t # "null"
    /\ \E c \in 1..Len(ToText(ValueAt(keys))) : ToText(ValueAt(keys))[c] \notin Whitespace

\* the field of pair k holds the text of the pair's value, in the default
\* font and size
WrittenAsText(k) ==
    \E o \in OpsAt("insert_text", FieldOf(k)) :
        /\ page[o].text = ToText(ValueAt(PathOf(k)))
        /\ page[o].font = FONT_NAME
        /\ page[o].size = FONT_SIZE

\* C11: for every (path, field) pair, once the loop over the mapping has
\* ended the field is written, with the text of the value at the field's
\* point in the default font and size, if and only if the path resolves to a
\* value whose text is non-empty after trimming and the field is in the
\* coordinate table; the number 0 and the boolean false are such values.
C11_WrittenIffTextNonEmpty ==
    LoopJustOver =>
        \A k \in Pairs :
            IF ResolvesToText(PathOf(k)) /\ FieldOf(k) \in DOMAIN FIELD_COORDINATES
            THEN WrittenAsText(k)
            ELSE OpsAt("insert_text", FieldOf(k)) = {}


\* C12: the record's flat key accompanied_by_arabic is never written to the
\* page directly (no insert_text at the accompanied_by_arabic point); text is
\* drawn at that point only for a record whose accompany_name is present and
\* non-empty, and then exactly once, by insert_arabic_text at the
\* bottom-label font size.
C12_FlatKeyNotWritten ==
    /\ OpsAt("insert_text", "accompanied_by_arabic") = {}
    /\ DrawnAt("accompanied_by_arabic") # {} =>
          /\ NamedCompanion
          /\ Cardinality(DrawnAt("accompanied_by_arabic")) = 1
          /\ \A o \in DrawnAt("accompanied_by_arabic") :
                page[o].size = BOTTOM_LABEL_FONT_SIZE


\* the page after the first n pairs of TEXT_FIELD_MAPPINGS
RECURSIVE MappedThrough(_, _, _)
MappedThrough(pg, d, n) ==
    IF n = 0 THEN pg
    ELSE FillMapped(MappedThrough(pg, d, n - 1), d, TEXT_FIELD_MAPPINGS[n])

\* the page the record's checkboxes give: one redaction, then the marks
MarkedPage == fill_checkboxes(redact_existing_dates(<<>>), data).page

\* the page the record and the outcomes of the font draws give, whatever the
\* entry point: the marked page, then the mapped fields, the derived dates,
\* the accompaniment text in the font that drew it, and the label
FilledPage ==
    LET mapped    == MappedThrough(MarkedPage, data, Len(TEXT_FIELD_MAPPINGS))
        departure == FillDerivedDates(mapped, data,
                                      <<"trip_info", ".", "departure_date_from_dubai">>,
                                      "trip_start_date", "arrival_date")
        arrival   == FillDerivedDates(departure, data,
                                      <<"trip_info", ".", "arrival_date_to_dubai">>,
                                      "trip_end_date", "departure_date")
        drawn     == IF \E k \in 1..Len(attempts) : attempts[k].ok
                     THEN ArabicDraw(arrival, attempts[Len(attempts)].font,
                                     BOTTOM_LABEL_FONT_SIZE)
                     ELSE arrival
    IN  FillVisaLabel(drawn, data).page

\* the place of a page operation in the order redaction, marks, text
Rank(by) == IF by = "draw_rect" THEN 1 ELSE IF by = "insert_checkbox" THEN 2 ELSE 3

\* the checkboxes fill_checkboxes can mark
LiveTypeBoxes     == {"checkbox_single_entry", "checkbox_two_entry", "checkbox_multiple_entry"}
LiveDurationBoxes == {"checkbox_three_months", "checkbox_six_months"}

\* C13: fill_visa_form and generate_filled_pdf_bytes apply the same sequence
\* of page operations: under either entry point the page is one redaction,
\* then the checkbox marks, then the text writes, and it is the page the
\* record alone determines (given the outcomes of the font draws), with the
\* same coordinates and contents, after fill_checkboxes and after
\* fill_text_fields. Every checkbox mark is at one of the three visa-type
\* checkboxes or at checkbox_three_months / checkbox_six_months, at most one
\* of each group: the sex, marital-status, purpose, 15-day and one-month
\* checkboxes are never marked.
C13_SamePageEitherEntry ==
    /\ \A j \in 1..Len(page) : \A k \in j..Len(page) :
          Rank(page[j].by) <= Rank(page[k].by)
    /\ Cardinality(OpsBy("draw_rect")) <= 1
    /\ (pc \notin {"load", "open", "redact"}) => Cardinality(OpsBy("draw_rect")) = 1
    /\ JustAfterCheckboxes => page = MarkedPage
    /\ tpc = "returned" => page = FilledPage
    /\ OpsBy("insert_checkbox") = MarksIn(LiveTypeBoxes \cup LiveDurationBoxes)
    /\ Cardinality(MarksIn(LiveTypeBoxes)) <= 1
    /\ Cardinality(MarksIn(LiveDurationBoxes)) <= 1
    /\ (CheckboxesReturned /\ pc # "raised") => Cardinality(MarksIn(LiveDurationBoxes)) = 1

\* fill_visa_form has saved and closed the form of a record of a recognized
\* type that also holds a sex, a marital status, a purpose and a duration of
\* one month: two marks and the record's texts are on the page
C13_Witness ==
    /\ entry = "fill_visa_form"
    /\ pc = "done"
    /\ data \in CategoryRecords
    /\ RecognizedType
    /\ Cardinality(OpsBy("insert_checkbox")) = 2
    /\ Len(TextWrites) = 2
    /\ page = FilledPage

=============================================================================
